---- MODULE Spec2Model ----
(***************************************************************************)
(* Model of catenets/models/transformation_utils.py: the three pointwise   *)
(* pseudo-outcome transformations (AIPW, Horvitz-Thompson, regression      *)
(* adjustment) and the name -> function registry with its lookup.          *)
(*                                                                         *)
(* Numbers are the values a numpy float64 array element can hold, with the *)
(* arithmetic of IEEE-754 on them: a finite value is an exact rational     *)
(* num/den in lowest terms, and the special values +inf, -inf and NaN      *)
(* arise from and propagate through division, multiplication and addition  *)
(* as IEEE-754 prescribes.  Rounding and the sign of zero are not          *)
(* modelled: finite results are the exact quotients, sums and products.    *)
(***************************************************************************)
EXTENDS Integers, Sequences, FiniteSets, TLC

\* Largest batch (number of units n) the caller prepares.
MaxLen == 2
\* Largest number of calls the caller makes of one resolved function
\* before it discards the result.
MaxCalls == 2

(***************************************************************************)
(* float64 values and their arithmetic                                     *)
(***************************************************************************)
Abs(i) == IF i < 0 THEN -i ELSE i

RECURSIVE GCD(_, _)
GCD(a, b) == IF b = 0 THEN a ELSE GCD(b, a % b)

\* The finite value n/d (d # 0), in lowest terms with a positive denominator.
Fin(n, d) ==
    IF d = 1 THEN [k |-> "fin", num |-> n, den |-> 1]
    ELSE LET g == GCD(Abs(n), Abs(d))
             s == IF d < 0 THEN -1 ELSE 1
         IN [k |-> "fin", num |-> (s * n) \div g, den |-> (s * d) \div g]

PInf == [k |-> "inf", num |-> 1, den |-> 0]
NInf == [k |-> "inf", num |-> -1, den |-> 0]
NaN  == [k |-> "nan", num |-> 0, den |-> 0]

Zero == Fin(0, 1)
One  == Fin(1, 1)
Half == Fin(1, 2)

IsFinite(a) == a.k = "fin"
Sign(a) == IF a.num > 0 THEN 1 ELSE IF a.num < 0 THEN -1 ELSE 0
Signed(s) == IF s > 0 THEN PInf ELSE NInf

\* -a
Neg(a) ==
    IF a.k = "nan" THEN NaN
    ELSE IF a.k = "inf" THEN Signed(-a.num)
    ELSE [k |-> "fin", num |-> -a.num, den |-> a.den]

\* a + b: inf + (-inf) is NaN, inf + finite is inf.
Add(a, b) ==
    IF a.k = "nan" \/ b.k = "nan" THEN NaN
    ELSE IF a.k = "inf" /\ b.k = "inf" THEN (IF a.num = b.num THEN a ELSE NaN)
    ELSE IF a.k = "inf" THEN a
    ELSE IF b.k = "inf" THEN b
    ELSE Fin(a.num * b.den + b.num * a.den, a.den * b.den)

\* a - b
Sub(a, b) == Add(a, Neg(b))

\* a * b: inf * 0 is NaN.
Mul(a, b) ==
    IF a.k = "nan" \/ b.k = "nan" THEN NaN
    ELSE IF a.k = "inf" \/ b.k = "inf"
         THEN (IF Sign(a) * Sign(b) = 0 THEN NaN ELSE Signed(Sign(a) * Sign(b)))
    ELSE Fin(a.num * b.num, a.den * b.den)

\* a / b as numpy divides float64 arrays: x/0 is +-inf for x # 0 and NaN for
\* x = 0 (a RuntimeWarning, never an exception); inf/inf is NaN; x/inf is 0.
Div(a, b) ==
    IF a.k = "nan" \/ b.k = "nan" THEN NaN
    ELSE IF a.k = "inf" /\ b.k = "inf" THEN NaN
    ELSE IF a.k = "inf" THEN Signed(IF Sign(b) < 0 THEN -a.num ELSE a.num)
    ELSE IF b.k = "inf" THEN Zero
    ELSE IF b.num = 0 THEN (IF a.num = 0 THEN NaN ELSE Signed(a.num))
    ELSE Fin(a.num * b.den, a.den * b.num)

(***************************************************************************)
(* numpy arrays of shape (n,): sequences of values                         *)
(***************************************************************************)
\* Shapes (n,) broadcast together when all lengths other than 1 agree.
Compatible(lens) == \A a \in lens : \A b \in lens : a = b \/ a = 1 \/ b = 1

BLen(a, b) == IF Len(a) = 1 THEN Len(b) ELSE Len(a)
At(a, i) == IF Len(a) = 1 THEN a[1] ELSE a[i]

\* Elementwise a + b, a - b, a * b, a / b of two arrays, a length-1 array
\* broadcast.  (Appending <<>> changes nothing: it has TLC build the array
\* at once.)
ArrAdd(a, b) == [i \in 1..BLen(a, b) |-> Add(At(a, i), At(b, i))] \o <<>>
ArrSub(a, b) == [i \in 1..BLen(a, b) |-> Sub(At(a, i), At(b, i))] \o <<>>
ArrMul(a, b) == [i \in 1..BLen(a, b) |-> Mul(At(a, i), At(b, i))] \o <<>>
ArrDiv(a, b) == [i \in 1..BLen(a, b) |-> Div(At(a, i), At(b, i))] \o <<>>

\* 1 - a: the scalar 1 broadcast against the array a.
OneMinus(a) == [i \in 1..Len(a) |-> Sub(One, a[i])] \o <<>>

\* A slip: one entry too many.
full_OneMore(n, v) == [i \in 1..(n + 1) |-> v]

\* onp.full(n, v)
full(n, v) == [i \in 1..n |-> v]

\* An optional array argument: None, or an array.
None == [isNone |-> TRUE, arr |-> <<>>]
Some(a) == [isNone |-> FALSE, arr |-> a]

\* How a call ends: it returns an array, or raises.
Return(a) == [raised |-> "none", value |-> a]
Raise(e) == [raised |-> e, value |-> <<>>]

(***************************************************************************)
(* The three transformations                                               *)
(***************************************************************************)
\* A slip: the default propensity 1 instead of 0.5.
default_p_Ones(y, p) == IF p.isNone THEN full(Len(y), One) ELSE p.arr

\* if p is None: p = onp.full(len(y), 0.5)
default_p(y, p) == IF p.isNone THEN full(Len(y), Half) ELSE p.arr

\* A slip: the control term of the augmentation added, not subtracted.
aipw_te_transformation_SignSlip(y, w, p, mu_0, mu_1) ==
    LET pp  == default_p(y, p)
        w_1 == ArrDiv(w, pp)
        w_0 == ArrDiv(OneMinus(w), OneMinus(pp))
    IN IF ~Compatible({Len(y), Len(w), Len(pp), Len(mu_0), Len(mu_1)})
       THEN Raise("ValueError")
       ELSE Return(ArrAdd(ArrMul(ArrSub(w_1, w_0), y),
                          ArrAdd(ArrMul(OneMinus(w_1), mu_1),
                                 ArrMul(OneMinus(w_0), mu_0))))

\* A slip: the control weight divided by p, not by 1 - p.
aipw_te_transformation_WrongWeight(y, w, p, mu_0, mu_1) ==
    LET pp  == default_p(y, p)
        w_1 == ArrDiv(w, pp)
        w_0 == ArrDiv(OneMinus(w), pp)
    IN IF ~Compatible({Len(y), Len(w), Len(pp), Len(mu_0), Len(mu_1)})
       THEN Raise("ValueError")
       ELSE Return(ArrAdd(ArrMul(ArrSub(w_1, w_0), y),
                          ArrSub(ArrMul(OneMinus(w_1), mu_1),
                                 ArrMul(OneMinus(w_0), mu_0))))

\* aipw_te_transformation(y, w, p, mu_0, mu_1)
aipw_te_transformation(y, w, p, mu_0, mu_1) ==
    LET pp  == default_p(y, p)
        w_1 == ArrDiv(w, pp)
        w_0 == ArrDiv(OneMinus(w), OneMinus(pp))
    IN IF ~Compatible({Len(y), Len(w), Len(pp), Len(mu_0), Len(mu_1)})
       THEN Raise("ValueError")
       ELSE Return(ArrAdd(ArrMul(ArrSub(w_1, w_0), y),
                          ArrSub(ArrMul(OneMinus(w_1), mu_1),
                                 ArrMul(OneMinus(w_0), mu_0))))

\* A slip: the placeholders read, the augmentation added when they are given.
ht_te_transformation_ReadsMu(y, w, p, mu_0, mu_1) ==
    IF mu_0.isNone \/ mu_1.isNone
    THEN LET pp == default_p(y, p)
         IN Return(ArrMul(ArrSub(ArrDiv(w, pp),
                                 ArrDiv(OneMinus(w), OneMinus(pp))), y))
    ELSE aipw_te_transformation(y, w, p, mu_0.arr, mu_1.arr)

\* A hardening the code does not have: degenerate propensities rejected.
ht_te_transformation_Guarded(y, w, p, mu_0, mu_1) ==
    LET pp == default_p(y, p)
    IN IF ~Compatible({Len(y), Len(w), Len(pp)})
             \/ \E i \in 1..Len(pp) : pp[i] \in {Zero, One}
       THEN Raise("ValueError")
       ELSE Return(ArrMul(ArrSub(ArrDiv(w, pp),
                                 ArrDiv(OneMinus(w), OneMinus(pp))), y))

\* ht_te_transformation(y, w, p, mu_0=None, mu_1=None); mu_0 and mu_1 are
\* optional arrays here, as the defaults are None.
ht_te_transformation(y, w, p, mu_0, mu_1) ==
    LET pp == default_p(y, p)
    IN IF ~Compatible({Len(y), Len(w), Len(pp)})
       THEN Raise("ValueError")
       ELSE Return(ArrMul(ArrSub(ArrDiv(w, pp),
                                 ArrDiv(OneMinus(w), OneMinus(pp))), y))

\* A slip: mu_0 and mu_1 exchanged.
ra_te_transformation_Swapped(y, w, p, mu_0, mu_1) ==
    IF ~Compatible({Len(y), Len(w), Len(mu_0), Len(mu_1)})
    THEN Raise("ValueError")
    ELSE Return(ArrAdd(ArrMul(w, ArrSub(y, mu_1)),
                       ArrMul(OneMinus(w), ArrSub(mu_0, y))))

\* ra_te_transformation(y, w, p, mu_0, mu_1); p is an optional array.
ra_te_transformation(y, w, p, mu_0, mu_1) ==
    IF ~Compatible({Len(y), Len(w), Len(mu_0), Len(mu_1)})
    THEN Raise("ValueError")
    ELSE Return(ArrAdd(ArrMul(w, ArrSub(y, mu_0)),
                       ArrMul(OneMinus(w), ArrSub(mu_1, y))))

(***************************************************************************)
(* The registry                                                            *)
(***************************************************************************)
\* A value passed as transformation_name: a str, or None.
Str(s) == [t |-> "str", s |-> s]
NoneName == [t |-> "NoneType", s |-> ""]

HT_TRANSFORMATION == Str("HT")
AIPW_TRANSFORMATION == Str("AIPW")
RA_TRANSFORMATION == Str("RA")

\* The list of the valid names, as the module builds it.
ALL_TRANSFORMATIONS == <<HT_TRANSFORMATION, AIPW_TRANSFORMATION, RA_TRANSFORMATION>>

\* References to the three functions.
HT_FN == "ht_te_transformation"
RA_FN == "ra_te_transformation"
AIPW_FN == "aipw_te_transformation"
NoFn == "no function"

\* A slip: the HT and RA entries of the dict exchanged.
TRANSFORMATION_DICT_Swapped ==
    (HT_TRANSFORMATION :> RA_FN) @@ (RA_TRANSFORMATION :> HT_FN)
        @@ (AIPW_TRANSFORMATION :> AIPW_FN)

\* The dict from name to function, as the module builds it.
TRANSFORMATION_DICT ==
    (HT_TRANSFORMATION :> HT_FN) @@ (RA_TRANSFORMATION :> RA_FN)
        @@ (AIPW_TRANSFORMATION :> AIPW_FN)

\* x in lst, for a list.
InList(x, lst) == \E i \in 1..Len(lst) : lst[i] = x

\* '{}'.format(x): str(x)
Format(x) == IF x.t = "str" THEN x.s ELSE "None"

\* A slip: the literal raised as it stands, .format() forgotten.
ErrorMessage_Unformatted(transformation_name) ==
    << "Parameter first stage should be in ",
       "catenets.models.transformations.ALL_TRANSFORMATIONS",
       ".", " You passed ", "{}" >>

\* The text of the ValueError, as the pieces the literal is made of.
ErrorMessage(transformation_name) ==
    << "Parameter first stage should be in ",
       "catenets.models.transformations.ALL_TRANSFORMATIONS",
       ".", " You passed ", Format(transformation_name) >>

NoError == [type |-> "none", msg |-> <<>>]

\* _get_transformation_function(transformation_name), reading the list all
\* and the dict d: the function returned and the exception raised.
get_transformation_function(transformation_name, all, d) ==
    IF ~InList(transformation_name, all)
    THEN [fn |-> NoFn,
          exc |-> [type |-> "ValueError", msg |-> ErrorMessage(transformation_name)]]
    ELSE IF transformation_name \notin DOMAIN d
    THEN [fn |-> NoFn, exc |-> [type |-> "KeyError", msg |-> <<Format(transformation_name)>>]]
    ELSE [fn |-> d[transformation_name], exc |-> NoError]

(***************************************************************************)
(* State                                                                   *)
(***************************************************************************)
VARIABLES
    y, w, p, mu_0, mu_1,     \* the caller's batch: arrays; p an optional array
    all_transformations,     \* the module's list ALL_TRANSFORMATIONS
    transformation_dict,     \* the module's dict TRANSFORMATION_DICT
    requested,               \* the name last looked up
    returned,                \* what the last lookup returned, or NoFn
    raised,                  \* what the last lookup raised, or NoError
    ncalls,                  \* calls made of the returned function
    args,                    \* the p, mu_0, mu_1 arguments of the last call
    out                      \* how the last call ended

batch == <<y, w, p, mu_0, mu_1>>
registry == <<all_transformations, transformation_dict>>
lookup == <<requested, returned, raised>>
vars == <<y, w, p, mu_0, mu_1, all_transformations, transformation_dict,
          requested, returned, raised, ncalls, args, out>>

\* Values the caller's arrays hold: outcomes, treatment indicators,
\* propensities (0 and 1 are the degenerate ones), estimated means.
YVals == {One, Fin(2, 1)}
WVals == {Zero, One}
PVals == {Zero, Fin(1, 4), Half, One}
MuVals == {Zero, One}

\* The array of n entries v.
Const(n, v) == [i \in 1..n |-> v]

\* Names the caller looks up.
Names == {HT_TRANSFORMATION, AIPW_TRANSFORMATION, RA_TRANSFORMATION,
          Str("bogus"), Str("ht"), NoneName}

NotRequested == [t |-> "nothing", s |-> ""]
NoArgs == [p |-> None, mu_0 |-> None, mu_1 |-> None]
NoOut == [raised |-> "not called", value |-> <<>>]

Init ==
    /\ \E n \in 0..MaxLen :
        /\ y \in [1..n -> YVals]
        /\ w \in [1..n -> WVals]
        /\ p \in {None} \cup {Some(a) : a \in [1..n -> PVals]}
        /\ mu_0 \in {Const(n, v) : v \in MuVals}
        /\ mu_1 \in {Const(n, v) : v \in MuVals}
    /\ all_transformations = ALL_TRANSFORMATIONS
    /\ transformation_dict = TRANSFORMATION_DICT
    /\ requested = NotRequested
    /\ returned = NoFn
    /\ raised = NoError
    /\ ncalls = 0
    /\ args = NoArgs
    /\ out = NoOut

(***************************************************************************)
(* Operations                                                              *)
(***************************************************************************)
\* The caller looks a name up (before it calls what it gets).
Lookup(transformation_name) ==
    LET r == get_transformation_function(transformation_name,
                                         all_transformations, transformation_dict)
    IN /\ ncalls = 0
       /\ requested' = transformation_name
       /\ returned' = r.fn
       /\ raised' = r.exc
       /\ UNCHANGED <<batch, registry, ncalls, args, out>>

\* A slip: w_1 computed in place (w /= p), the caller's w overwritten.
CallAIPW_InPlace ==
    /\ returned = AIPW_FN
    /\ ncalls < MaxCalls
    /\ out' = aipw_te_transformation(y, w, p, mu_0, mu_1)
    /\ w' = ArrDiv(w, default_p(y, p))
    /\ args' = [p |-> p, mu_0 |-> Some(mu_0), mu_1 |-> Some(mu_1)]
    /\ ncalls' = ncalls + 1
    /\ UNCHANGED <<y, p, mu_0, mu_1, registry, lookup>>

\* The caller calls the function the lookup returned, with its batch.
CallAIPW ==
    /\ returned = AIPW_FN
    /\ ncalls < MaxCalls
    /\ out' = aipw_te_transformation(y, w, p, mu_0, mu_1)
    /\ args' = [p |-> p, mu_0 |-> Some(mu_0), mu_1 |-> Some(mu_1)]
    /\ ncalls' = ncalls + 1
    /\ UNCHANGED <<batch, registry, lookup>>

\* The same for Horvitz-Thompson, the placeholders mu_0 and mu_1 passed or
\* left at their default None.
CallHT ==
    /\ returned = HT_FN
    /\ ncalls < MaxCalls
    /\ \E m \in {[mu_0 |-> None, mu_1 |-> None],
                 [mu_0 |-> Some(mu_0), mu_1 |-> Some(mu_1)]} :
        /\ out' = ht_te_transformation(y, w, p, m.mu_0, m.mu_1)
        /\ args' = [p |-> p, mu_0 |-> m.mu_0, mu_1 |-> m.mu_1]
    /\ ncalls' = ncalls + 1
    /\ UNCHANGED <<batch, registry, lookup>>

\* The same for regression adjustment, the placeholder p being the caller's
\* propensities (None among them) or a degenerate array of zeros.
CallRA ==
    /\ returned = RA_FN
    /\ ncalls < MaxCalls
    /\ \E pa \in {p, Some(Const(Len(y), Zero))} :
        /\ out' = ra_te_transformation(y, w, pa, mu_0, mu_1)
        /\ args' = [p |-> pa, mu_0 |-> Some(mu_0), mu_1 |-> Some(mu_1)]
    /\ ncalls' = ncalls + 1
    /\ UNCHANGED <<batch, registry, lookup>>

\* The caller drops the result it holds.
Discard ==
    /\ ncalls > 0
    /\ ncalls' = 0
    /\ args' = NoArgs
    /\ out' = NoOut
    /\ UNCHANGED <<batch, registry, lookup>>

Next ==
    \/ \E name \in Names : Lookup(name)
    \/ CallAIPW
    \/ CallHT
    \/ CallRA
    \/ Discard

Spec == Init /\ [][Next]_vars

(***************************************************************************)
(* Properties                                                              *)
(***************************************************************************)
NUnits == Len(y)
Units == 1..Len(y)
Called(fn) == returned = fn /\ ncalls > 0
Contains(msg, piece) == \E i \in 1..Len(msg) : msg[i] = piece

\* The sample batch of the specification's section 8.
IsSample ==
    /\ y = <<One, Fin(2, 1)>>
    /\ w = <<One, Zero>>
    /\ p = Some(<<Half, Half>>)
    /\ mu_0 = <<Zero, Zero>>
    /\ mu_1 = <<One, One>>

\* C1: a lookup of any name other than "HT", "AIPW", "RA" raises ValueError,
\* returns no function and calls nothing, and the message holds the name
\* as formatted and names the list ALL_TRANSFORMATIONS of the valid names.
C1_InvalidNameRaises ==
    (requested # NotRequested
        /\ requested \notin {Str("HT"), Str("AIPW"), Str("RA")})
    => /\ raised.type = "ValueError"
       /\ returned = NoFn
       /\ out = NoOut
       /\ Contains(raised.msg, Format(requested))
       /\ Contains(raised.msg, "catenets.models.transformations.ALL_TRANSFORMATIONS")

\* C1 witness: "bogus" was looked up and the lookup raised.
C1_Witness ==
    /\ requested = Str("bogus")
    /\ raised.type = "ValueError"
    /\ Contains(raised.msg, "bogus")

\* C2: a lookup of "HT", "RA" or "AIPW" raises nothing and returns the
\* function of that name without calling it; on the sample batch the
\* function returned for "RA" gives [1, -1] and the one for "HT" [2, -4].
C2_ValidNameResolves ==
    /\ requested = Str("HT") => returned = HT_FN /\ raised = NoError
    /\ requested = Str("RA") => returned = RA_FN /\ raised = NoError
    /\ requested = Str("AIPW") => returned = AIPW_FN /\ raised = NoError
    /\ ncalls = 0 => out = NoOut
    /\ (IsSample /\ ncalls > 0 /\ requested = Str("RA"))
         => out = Return(<<One, Fin(-1, 1)>>)
    /\ (IsSample /\ ncalls > 0 /\ requested = Str("HT"))
         => out = Return(<<Fin(2, 1), Fin(-4, 1)>>)

\* C2 witness: "HT" was looked up and what it returned, called on the
\* sample batch, gave [2, -4].
C2_Witness ==
    /\ IsSample
    /\ requested = Str("HT")
    /\ ncalls > 0
    /\ out.value = <<Fin(2, 1), Fin(-4, 1)>>

\* p = 0.5 for every unit.
PHalf == p = Some(Const(NUnits, Half))
\* The regression-adjustment pseudo-outcome of the caller's batch.
RAValue == ra_te_transformation(y, w, p, mu_0, mu_1).value
\* The outcome of unit i equals the estimated mean of the unit's own arm.
OwnArmMean(i) == IF w[i] = One THEN y[i] = mu_1[i] ELSE y[i] = mu_0[i]

\* C3 as stated: with p = 0.5 for every unit, the AIPW pseudo-outcome of a
\* unit equals its RA pseudo-outcome only if y = mu_0 = mu_1 for the unit.
C3_DiffersUnlessAllEqual ==
    (Called(AIPW_FN) /\ PHalf)
    => LET ra == RAValue
       IN \A i \in Units :
            out.value[i] = ra[i] => (y[i] = mu_0[i] /\ y[i] = mu_1[i])

\* C3 as amended: with p = 0.5 for every unit, the AIPW pseudo-outcome of a
\* unit equals its RA pseudo-outcome exactly when y equals the estimated
\* mean of the unit's own arm (mu_1 if w = 1, mu_0 if w = 0).
C3_DiffersUnlessOwnArmMean ==
    (Called(AIPW_FN) /\ PHalf)
    => LET ra == RAValue
       IN \A i \in Units : (out.value[i] = ra[i]) <=> OwnArmMean(i)

\* C3 witness: AIPW was called with p = 0.5 and a unit has equal AIPW and
\* RA pseudo-outcomes although y differs from mu_0.
C3_Witness ==
    /\ Called(AIPW_FN)
    /\ PHalf
    /\ LET ra == RAValue
       IN \E i \in Units : out.value[i] = ra[i] /\ y[i] # mu_0[i]

\* C4: the regression-adjustment result of a unit is y - mu_0 if w = 1 and
\* mu_1 - y if w = 0, whatever p is.
C4_RegressionAdjustment ==
    Called(RA_FN)
    => /\ out.raised = "none"
       /\ Len(out.value) = NUnits
       /\ \A i \in Units :
            /\ w[i] = One => out.value[i] = Sub(y[i], mu_0[i])
            /\ w[i] = Zero => out.value[i] = Sub(mu_1[i], y[i])

\* C4 witness: RA was called on a batch with a treated and a control unit
\* whose results differ from each other.
C4_Witness ==
    /\ Called(RA_FN)
    /\ \E i \in Units : \E j \in Units :
         w[i] = One /\ w[j] = Zero /\ out.value[i] # out.value[j]

\* C5: Horvitz-Thompson and AIPW called with p None return what they return
\* with p = 0.5 for every unit; for Horvitz-Thompson that is 2*y for a unit
\* with w = 1 and -2*y for a unit with w = 0.
C5_DefaultPropensity ==
    /\ (Called(HT_FN) /\ p.isNone)
         => /\ out = ht_te_transformation(y, w, Some(Const(NUnits, Half)), args.mu_0, args.mu_1)
            /\ out.raised = "none"
            /\ \A i \in Units :
                 /\ w[i] = One => out.value[i] = Mul(Fin(2, 1), y[i])
                 /\ w[i] = Zero => out.value[i] = Mul(Fin(-2, 1), y[i])
    /\ (Called(AIPW_FN) /\ p.isNone)
         => out = aipw_te_transformation(y, w, Some(Const(NUnits, Half)), mu_0, mu_1)

\* C5 witness: Horvitz-Thompson was called with p None on a batch with a
\* treated and a control unit.
C5_Witness ==
    /\ Called(HT_FN)
    /\ p.isNone
    /\ \E i \in Units : \E j \in Units : w[i] = One /\ w[j] = Zero

\* C6: every call returns an array with exactly n entries, n >= 0.
C6_OutputLength ==
    ncalls > 0 => (out.raised = "none" /\ Len(out.value) = NUnits)

\* C6 witness: AIPW was called with p None on a batch of the largest size.
C6_Witness ==
    /\ Called(AIPW_FN)
    /\ p.isNone
    /\ NUnits = MaxLen
    /\ Len(out.value) = MaxLen

\* Whether the propensity of unit i is strictly between 0 and 1.
Regular(i) == p.arr[i] \notin {Zero, One}

\* The units from i on with such a propensity, in order.
RECURSIVE RegularFrom(_)
RegularFrom(i) ==
    IF i > NUnits THEN <<>>
    ELSE (IF Regular(i) THEN <<i>> ELSE <<>>) \o RegularFrom(i + 1)

\* The entries of a at the places idx.
Keep(a, idx) == [j \in 1..Len(idx) |-> a[idx[j]]]

\* The batch of the units idx, transformed by fn.
OnUnits(fn, idx) ==
    IF fn = HT_FN
    THEN ht_te_transformation(Keep(y, idx), Keep(w, idx),
                              Some(Keep(p.arr, idx)), None, None)
    ELSE aipw_te_transformation(Keep(y, idx), Keep(w, idx),
                                Some(Keep(p.arr, idx)),
                                Keep(mu_0, idx), Keep(mu_1, idx))

\* C7: a Horvitz-Thompson or AIPW call on a batch with propensities 0 or 1
\* raises nothing and returns n entries; the entry of a unit with p in {0, 1}
\* is infinite or NaN, and the entries of the other units are what the call
\* returns for the batch without the degenerate units.
C7_DegeneratePropensity ==
    ((Called(HT_FN) \/ Called(AIPW_FN)) /\ ~p.isNone)
    => /\ out.raised = "none"
       /\ Len(out.value) = NUnits
       /\ \A i \in Units : ~Regular(i) => ~IsFinite(out.value[i])
       /\ LET idx == RegularFrom(1)
          IN Keep(out.value, idx) = OnUnits(returned, idx).value

\* C7 witness: AIPW was called on a batch with a unit with w = 1 and p = 1,
\* whose entry is NaN, beside a unit with a regular propensity.
C7_Witness ==
    /\ Called(AIPW_FN)
    /\ ~p.isNone
    /\ \E i \in Units : \E j \in Units :
         /\ w[i] = One /\ p.arr[i] = One /\ out.value[i] = NaN
         /\ Regular(j) /\ IsFinite(out.value[j])

\* A step that is a second or later call of the function resolved.
RepeatedCall == ncalls >= 1 /\ ncalls' = ncalls + 1

\* C8: no lookup (raising or not) and no call changes the caller's arrays
\* y, w, p, mu_0, mu_1 or the registry, and a repeated call with the same
\* arguments returns what the call before it returned.
C8_InputsAndRegistryUnchanged ==
    [][/\ UNCHANGED <<y, w, p, mu_0, mu_1>>
       /\ UNCHANGED <<all_transformations, transformation_dict>>
       /\ (RepeatedCall /\ args' = args) => out' = out]_vars

\* C8 witness: a transformation was called again with the same arguments on
\* a non-empty batch, after a lookup that raised nothing.
C8_Witness ==
    /\ ncalls = MaxCalls
    /\ NUnits > 0
    /\ out.raised = "none"
    /\ args = [p |-> p, mu_0 |-> Some(mu_0), mu_1 |-> Some(mu_1)]

\* C9: a Horvitz-Thompson call returns what the call before it returned
\* when the two agree on y, w, p, whatever mu_0 and mu_1 are (None
\* included); a regression-adjustment call returns what the call before it
\* returned when the two agree on y, w, mu_0, mu_1, whatever p is (None
\* or all zeros included).
C9_PlaceholdersIgnored ==
    [][/\ (RepeatedCall /\ returned = HT_FN /\ args'.p = args.p) => out' = out
       /\ (RepeatedCall /\ returned = RA_FN
              /\ args'.mu_0 = args.mu_0 /\ args'.mu_1 = args.mu_1) => out' = out]_vars

\* C9 witness: regression adjustment was called a second time, with a
\* degenerate p of zeros that is not the caller's p.
C9_Witness ==
    /\ Called(RA_FN)
    /\ ncalls = MaxCalls
    /\ NUnits > 0
    /\ args.p = Some(Const(NUnits, Zero))
    /\ args.p # p

\* The propensities in effect: 0.5 for every unit when p is None.
PEff == IF p.isNone THEN Const(NUnits, Half) ELSE p.arr
\* The Horvitz-Thompson pseudo-outcome of the caller's batch.
HTValue == ht_te_transformation(y, w, p, None, None).value
\* (1 - w/p)*mu_1 - (1 - (1-w)/(1-p))*mu_0 for unit i.
Augmentation(i) ==
    Sub(Mul(Sub(One, Div(w[i], PEff[i])), mu_1[i]),
        Mul(Sub(One, Div(Sub(One, w[i]), Sub(One, PEff[i]))), mu_0[i]))

\* C10: for a unit with p strictly between 0 and 1 (or p None) the AIPW
\* pseudo-outcome is the Horvitz-Thompson pseudo-outcome plus
\* (1 - w/p)*mu_1 - (1 - (1-w)/(1-p))*mu_0, and it is the Horvitz-Thompson
\* pseudo-outcome itself when mu_0 = mu_1 = 0.
C10_AIPWIsHTPlusAugmentation ==
    Called(AIPW_FN)
    => LET ht == HTValue
       IN \A i \in Units :
            PEff[i] \notin {Zero, One}
            => /\ out.value[i] = Add(ht[i], Augmentation(i))
               /\ (mu_0[i] = Zero /\ mu_1[i] = Zero) => out.value[i] = ht[i]

\* C10 witness: AIPW was called on a batch with a unit with p = 1/4 and
\* mu_1 = 1 whose pseudo-outcome is not the Horvitz-Thompson one.
C10_Witness ==
    /\ Called(AIPW_FN)
    /\ ~p.isNone
    /\ LET ht == HTValue
       IN \E i \in Units :
            p.arr[i] = Fin(1, 4) /\ mu_1[i] = One /\ out.value[i] # ht[i]

====
